---- MODULE Spec2Model ----
(***************************************************************************)
(* Model of openhands/server/services/conversation_service.py:             *)
(* create_new_conversation, the coroutine that resolves the settings of a  *)
(* conversation, persists its metadata when the conversation is new and    *)
(* hands it to the conversation manager.  Every await of the coroutine is  *)
(* a point where other invocations may run; one action models the code     *)
(* between two awaits.                                                      *)
(***************************************************************************)
EXTENDS Integers, Sequences, FiniteSets, TLC

(* ---------------------------- bounds ----------------------------------- *)
\* concurrent invocations (asyncio tasks) that may be in flight
NumProcs == 2
\* invocations started in one behaviour
MaxCalls == 2

Procs == 1..NumProcs

(* ------------------------ Python values -------------------------------- *)
\* A str (or SecretStr, or list) is a sequence of symbols; Optional values
\* are wrapped so that None differs from the empty string.
None == [none |-> TRUE, val |-> <<>>]
Some(v) == [none |-> FALSE, val |-> v]

Whitespace == {" ", "\t"}

\* bool(x) of an Optional str / SecretStr / list: None and empty are falsy
Truthy(o) == ~o.none /\ Len(o.val) > 0

\* str.isspace(): at least one character and all of them whitespace
IsSpace(s) == Len(s) > 0 /\ \A i \in 1..Len(s) : s[i] \in Whitespace

\* Python's `a or b`
PyOr(a, b) == IF Truthy(a) THEN a ELSE b

\* {**a, **b}: the keys of both, b's value on a collision
Merge(a, b) ==
  [k \in (DOMAIN a) \cup (DOMAIN b) |-> IF k \in DOMAIN b THEN b[k] ELSE a[k]]

\* d[k] = v
SetItem(d, k, v) ==
  [x \in (DOMAIN d) \cup {k} |-> IF x = k THEN v ELSE d[x]]

EmptyDict == [k \in {} |-> None]

(* ------------------------ conversation ids ----------------------------- *)
NoId == <<"none", 0>>
ExternalIds == {<<"ext", 1>>}
\* the n-th value of uuid.uuid4().hex
GenId(n) == <<"uuid", n>>
AllIds == ExternalIds \cup {GenId(n) : n \in 1..MaxCalls}

(* ------------------------ settings ------------------------------------- *)
NoValue == "<None>"
OverrideFields ==
  {"git_provider_tokens", "selected_repository", "custom_secrets",
   "selected_branch", "git_provider", "conversation_instructions"}

MockKey == <<"mock-api-key-for-testing">>
ValidKey == <<"s", "k">>
EnvKey == <<"e", "k">>
RouterKey == <<"o", "r">>

\* the api keys a stored Settings object may carry
StoredKeys == {None, Some(<<>>), Some(<<" ", "\t">>), Some(ValidKey)}

StoredSettingsOf(key, extra) ==
  Merge([language |-> "fr", agent |-> <<"StoredAgent">>, max_iterations |-> 50,
         llm_model |-> <<"stored-model">>, llm_api_key |-> key,
         llm_base_url |-> <<"stored-url">>, confirmation_mode |-> "True",
         enable_default_condenser |-> "False",
         enable_sound_notifications |-> "True",
         enable_proactive_conversation_starters |-> "False"], extra)

\* settings_store.load() found nothing
NoSettings == EmptyDict

\* what settings_store.load() may return when it finds settings: the usual
\* Settings fields, or an object that also carries a selected_repository
StoredSettings ==
  {StoredSettingsOf(k, x) :
     k \in StoredKeys, x \in {EmptyDict, [selected_repository |-> "old/repo"]}}

\* the process environment: each variable unset (None) or a string
EnvOf(llm, router, model) ==
  [LLM_API_KEY |-> llm, OPENROUTER_API_KEY |-> router, LLM_MODEL |-> model,
   DEFAULT_AGENT |-> None, LLM_BASE_URL |-> None]

Environments ==
  {EnvOf(None, None, None),
   EnvOf(Some(<<" ">>), None, None),
   EnvOf(Some(<<>>), Some(RouterKey), Some(<<"env-model">>)),
   EnvOf(Some(EnvKey), Some(<<"\t">>), None)}

\* the environments of the concurrent runs: no key set, or a blank one
ConcurrentEnvironments ==
  {EnvOf(None, None, None), EnvOf(Some(<<" ">>), None, None)}

\* os.getenv(name): the value or None
GetEnv(e, name) == e[name]
\* os.getenv(name, default)
GetEnvDefault(e, name, default) ==
  IF e[name].none THEN default ELSE e[name].val

\* line 80 without its last alternative
DefaultApiKeyNoMock(e) ==
  PyOr(GetEnv(e, "LLM_API_KEY"), GetEnv(e, "OPENROUTER_API_KEY"))
\* line 80: the key of the synthesized default settings
DefaultApiKey(e) ==
  PyOr(GetEnv(e, "LLM_API_KEY"),
       PyOr(GetEnv(e, "OPENROUTER_API_KEY"), Some(MockKey)))

\* lines 82-93: Settings(...) built from the environment
DefaultSettings(e) ==
  [language |-> "en",
   agent |-> GetEnvDefault(e, "DEFAULT_AGENT", <<"CodeActAgent">>),
   max_iterations |-> 100,
   llm_model |->
     GetEnvDefault(e, "LLM_MODEL", <<"anthropic/claude-3-haiku-20240307">>),
   llm_api_key |-> Some(DefaultApiKey(e).val),
   llm_base_url |->
     GetEnvDefault(e, "LLM_BASE_URL", <<"https://openrouter.ai/api/v1">>),
   confirmation_mode |-> "False",
   enable_default_condenser |-> "True",
   enable_sound_notifications |-> "False",
   enable_proactive_conversation_starters |-> "True"]

\* lines 62-65: not settings.llm_api_key
\*              or settings.llm_api_key.get_secret_value().isspace()
KeyInvalid(settings) ==
  \/ ~Truthy(settings.llm_api_key)
  \/ IsSpace(settings.llm_api_key.val)

\* lines 99-104 assigning only the per-call values that are not None
ApplyOverridesSkipNone(session_init_args, a) ==
  LET given == {f \in {"git_provider_tokens", "selected_repository",
                       "custom_secrets", "selected_branch", "git_provider",
                       "conversation_instructions"} : a[f] # "<None>"}
  IN  Merge(session_init_args, [f \in given |-> a[f]])
\* lines 99-104: the per-call values are assigned over whatever is there
ApplyOverrides(session_init_args, a) ==
  LET s1 == SetItem(session_init_args, "git_provider_tokens", a.git_provider_tokens)
      s2 == SetItem(s1, "selected_repository", a.selected_repository)
      s3 == SetItem(s2, "custom_secrets", a.custom_secrets)
      s4 == SetItem(s3, "selected_branch", a.selected_branch)
      s5 == SetItem(s4, "git_provider", a.git_provider)
  IN  SetItem(s5, "conversation_instructions", a.conversation_instructions)

\* lines 57-105: session_init_args for stored settings (a dict) or, when the
\* store has none, for the defaults
SessionInitArgs(settings, e, a) ==
  ApplyOverrides(
    IF settings # NoSettings THEN Merge(settings, EmptyDict)
                            ELSE Merge(DefaultSettings(e), EmptyDict), a)

\* lines 113-114 with a uuid4 drawn whether or not an id was supplied
ResolveIdAlways(conversation_id, fresh) == fresh
\* lines 113-114 with the id of the first call kept for every later one
ResolveIdOnce(conversation_id, fresh) ==
  IF conversation_id = NoId THEN GenId(1) ELSE conversation_id
\* lines 113-114
ResolveId(conversation_id, fresh) ==
  IF conversation_id = NoId THEN fresh ELSE conversation_id

\* line 123 with the value of the variant test thrown away
AdoptNothing(before, returned) == before
\* line 123: conversation_init_data is rebound to what the variant test
\* returned
Adopt(before, returned) == returned

\* the `not` of line 116 dropped
IsNewInverted(existsAnswer) == existsAnswer
\* the creation branch taken whatever exists() answered
IsNewAlways(existsAnswer) == TRUE
\* line 116: the creation branch is taken when exists() answered False
IsNew(existsAnswer) == ~existsAnswer

NoMessage == [present |-> FALSE, content |-> <<>>, image_urls |-> <<>>]
\* line 145 with `and` for `or`
InitialMessageActionBoth(initial_user_msg, image_urls) ==
  IF Truthy(initial_user_msg) /\ Truthy(image_urls)
    THEN [present |-> TRUE,
          content |-> PyOr(initial_user_msg, Some(<<>>)).val,
          image_urls |-> PyOr(image_urls, Some(<<>>)).val]
    ELSE NoMessage
\* lines 144-149
InitialMessageAction(initial_user_msg, image_urls) ==
  IF Truthy(initial_user_msg) \/ Truthy(image_urls)
    THEN [present |-> TRUE,
          content |-> PyOr(initial_user_msg, Some(<<>>)).val,
          image_urls |-> PyOr(image_urls, Some(<<>>)).val]
    ELSE NoMessage

\* get_default_conversation_title(conversation_id)
DefaultTitle(id) == <<"Conversation", id>>

\* lines 128-137
ConversationMetadata(a, id, data) ==
  [trigger |-> a.conversation_trigger,
   conversation_id |-> id,
   title |-> DefaultTitle(id),
   user_id |-> a.user_id,
   selected_repository |-> a.selected_repository,
   selected_branch |-> a.selected_branch,
   git_provider |-> a.git_provider,
   llm_model |-> data.llm_model]

\* lines 151-160 with the initial message left out when attach_convo_id is set
LaunchArgsAttaching(a, id, data) ==
  [conversation_id |-> id,
   settings |-> data,
   user_id |-> a.user_id,
   initial_user_msg |->
     IF a.attach_convo_id THEN NoMessage
     ELSE InitialMessageAction(a.initial_user_msg, a.image_urls),
   replay_json |-> a.replay_json]
\* lines 154-160: the arguments of maybe_start_agent_loop
LaunchArgs(a, id, data) ==
  [conversation_id |-> id,
   settings |-> data,
   user_id |-> a.user_id,
   initial_user_msg |-> InitialMessageAction(a.initial_user_msg, a.image_urls),
   replay_json |-> a.replay_json]

\* ExperimentManagerImpl.run_conversation_variant_test: the settings as they
\* are, or with the model of an experiment bucket
VariantResults(user_id, id, data) ==
  {data, [data EXCEPT !["llm_model"] = <<"variant-model">>]}

\* what the conversation manager may return for a conversation
AgentLoopInfos(id) ==
  {[conversation_id |-> id, status |-> "RUNNING"]}
NoInfo == [conversation_id |-> NoId, status |-> "none"]

(* ------------------------ call arguments ------------------------------- *)
NoOverrides ==
  [git_provider_tokens |-> NoValue, custom_secrets |-> NoValue,
   selected_repository |-> NoValue, selected_branch |-> NoValue,
   git_provider |-> NoValue, conversation_instructions |-> NoValue]

OverrideChoices ==
  {NoOverrides,
   [NoOverrides EXCEPT !.selected_repository = "org/repo"],
   [git_provider_tokens |-> "tokens", custom_secrets |-> "secrets",
    selected_repository |-> "org/repo", selected_branch |-> "main",
    git_provider |-> "github", conversation_instructions |-> "be brief"]}

ArgsOf(user, o, msg, imgs, attach, id) ==
  [user_id |-> user,
   git_provider_tokens |-> o.git_provider_tokens,
   custom_secrets |-> o.custom_secrets,
   selected_repository |-> o.selected_repository,
   selected_branch |-> o.selected_branch,
   initial_user_msg |-> msg,
   image_urls |-> imgs,
   replay_json |-> NoValue,
   conversation_instructions |-> o.conversation_instructions,
   conversation_trigger |-> "gui",
   attach_convo_id |-> attach,
   git_provider |-> o.git_provider,
   conversation_id |-> id]

NoArgs == ArgsOf(NoValue, NoOverrides, None, None, FALSE, NoId)

Texts == {None, Some(<<>>), Some(<<"h", "i">>)}
ImageLists == {None, Some(<<>>), Some(<<"img1">>)}

(* ------------------------ state ---------------------------------------- *)
VARIABLES
  env,        \* the process environment read by os.getenv
  store,      \* the conversation store: conversation id -> saved metadata
  uuidCount,  \* uuid4 values handed out so far
  started,    \* invocations started so far
  pc,         \* per task: the await the coroutine is suspended at
  args,       \* per task: the arguments of the invocation
  cid,        \* per task: conversation_id after lines 113-114
  init_data,  \* per task: conversation_init_data
  calls,      \* per task: the collaborator calls made, with their outcomes
  saved,      \* per task: the metadata handed to save_metadata
  launched,   \* per task: the arguments handed to maybe_start_agent_loop
  result,     \* per task: what the invocation returned or raised
  saveCount,  \* per conversation id: save_metadata invocations so far
  existedAtCall, \* per task: the store held the id when exists was called
  lateFailed, \* ids whose metadata was saved by a call that then failed
  issued,     \* the ids given, in order, to the calls that supplied none
  variantOut  \* per task: the settings the variant test returned

vars ==
  <<env, store, uuidCount, started, pc, args, cid, init_data, calls, saved,
    launched, result, saveCount, existedAtCall, lateFailed, issued,
    variantOut>>

EmptyStore == [i \in {} |-> NoArgs]
NoMetadata == ConversationMetadata(NoArgs, NoId, [llm_model |-> <<>>])
\* a store that holds an external conversation saved by an earlier process
EarlierStore ==
  [i \in ExternalIds |->
     ConversationMetadata(
       [NoArgs EXCEPT !.conversation_trigger = "resolver"], i,
       [llm_model |-> <<"earlier-model">>])]
NoLaunch == [conversation_id |-> NoId]
NoResult == [status |-> "none", error |-> "", info |-> NoInfo]
\* line 162 returning a value of its own making
ReturnedAltered(info) ==
  [status |-> "ok", error |-> "",
   info |-> [conversation_id |-> info.conversation_id, status |-> "ALTERED"]]
\* line 162: return agent_loop_info
Returned(info) == [status |-> "ok", error |-> "", info |-> info]
Raised(e) == [status |-> "error", error |-> e, info |-> NoInfo]

\* a collaborator call and its outcome ("pending" until the await ends)
Call(op, id) == [op |-> op, id |-> id, out |-> "pending"]
\* the pending call of a trace ended with an outcome
Complete(trace, out) == [trace EXCEPT ![Len(trace)].out = out]

\* the ids a caller can supply: none, an external one, or one generated before
SuppliedIds == {NoId} \cup ExternalIds \cup {GenId(n) : n \in 1..uuidCount}

\* the arguments of the invocations that run concurrently: anonymous calls
\* that name the same external conversation
ConcurrentArgs ==
  {ArgsOf(NoValue, NoOverrides, None, None, FALSE, id) : id \in ExternalIds}

\* every combination of arguments
AllArgs ==
  {ArgsOf(u, o, msg, imgs, attach, id) :
     u \in {NoValue, "u1"}, o \in OverrideChoices, msg \in Texts,
     imgs \in ImageLists, attach \in BOOLEAN, id \in SuppliedIds}

\* the arguments of a later call of a user: a conversation is resumed or
\* another one begun
LaterArgs ==
  {ArgsOf("u1", NoOverrides, None, None, attach, id) :
     attach \in BOOLEAN, id \in SuppliedIds}

InitFrom(environments) ==
  /\ env \in environments
  /\ store \in {EmptyStore, EarlierStore}
  /\ uuidCount = 0
  /\ started = 0
  /\ pc = [p \in Procs |-> "idle"]
  /\ args = [p \in Procs |-> NoArgs]
  /\ cid = [p \in Procs |-> NoId]
  /\ init_data = [p \in Procs |-> EmptyDict]
  /\ calls = [p \in Procs |-> <<>>]
  /\ saved = [p \in Procs |-> NoMetadata]
  /\ launched = [p \in Procs |-> NoLaunch]
  /\ result = [p \in Procs |-> NoResult]
  /\ saveCount = [i \in AllIds |-> 0]
  /\ existedAtCall = [p \in Procs |-> FALSE]
  /\ lateFailed = {}
  /\ issued = <<>>
  /\ variantOut = [p \in Procs |-> EmptyDict]

Init == InitFrom(ConcurrentEnvironments)
InitSeq == InitFrom(Environments)

\* conversation_store.exists(id)
Exists(st, id) == id \in DOMAIN st
\* conversation_store.save_metadata(m): the record of that id is (re)written
SaveMetadata(st, m) ==
  [i \in (DOMAIN st) \cup {m.conversation_id} |->
     IF i = m.conversation_id THEN m ELSE st[i]]

\* the answer of exists() as the trace records it
Answer(b) == IF b THEN "true" ELSE "false"

\* a synchronous call and its outcome
Done(op, id, out) == [op |-> op, id |-> id, out |-> out]

\* lines 123-127 with save_metadata called ahead of the variant test
CallSaveThenVariant(trace, id) ==
  Append(Append(trace, Call("save", id)), Done("variant", id, "ok"))
\* lines 123-127: the variant test ran, then save_metadata is called
CallVariantThenSave(trace, id) ==
  Append(Append(trace, Done("variant", id, "ok")), Call("save", id))

\* an await raised and a handler replaced the exception
FailGeneric(p, e) ==
  /\ pc' = [pc EXCEPT ![p] = "done"]
  /\ result' = [result EXCEPT ![p] = Raised("InternalError")]
\* an await raised: the exception leaves the coroutine as it is
Fail(p, e) ==
  /\ pc' = [pc EXCEPT ![p] = "done"]
  /\ result' = [result EXCEPT ![p] = Raised(e)]

\* lines 44-54: the invocation begins and awaits settings_store.load()
Start(p, argSet) ==
  /\ pc[p] = "idle"
  /\ started < MaxCalls
  /\ \E a \in argSet : args' = [args EXCEPT ![p] = a]
  /\ started' = started + 1
  /\ pc' = [pc EXCEPT ![p] = "load"]
  /\ calls' = [calls EXCEPT ![p] = <<Call("load", NoId)>>]
  /\ UNCHANGED <<env, store, uuidCount, cid, init_data, saved, launched,
                 result, saveCount, existedAtCall, lateFailed,
                 issued, variantOut>>

\* lines 53-54: the settings store raises
LoadRaises(p) ==
  /\ pc[p] = "load"
  /\ Fail(p, "SettingsStoreError")
  /\ calls' = [calls EXCEPT ![p] = Complete(@, "SettingsStoreError")]
  /\ UNCHANGED <<env, store, uuidCount, started, args, cid, init_data, saved,
                 launched, saveCount, existedAtCall, lateFailed,
                 issued, variantOut>>

\* lines 54-69: load() returned settings whose key is missing or blank
LoadReturnsBadKey(p) ==
  /\ pc[p] = "load"
  /\ \E settings \in StoredSettings : KeyInvalid(settings)
  /\ Fail(p, "LLMAuthenticationError")
  /\ calls' = [calls EXCEPT ![p] = Complete(@, "settings")]
  /\ UNCHANGED <<env, store, uuidCount, started, args, cid, init_data, saved,
                 launched, saveCount, existedAtCall, lateFailed,
                 issued, variantOut>>

\* lines 54-116: load() returned usable settings, or none; the init data is
\* built, the id resolved and conversation_store.exists awaited
LoadReturns(p) ==
  /\ pc[p] = "load"
  /\ \E settings \in StoredSettings \cup {NoSettings} :
       /\ settings # NoSettings => ~KeyInvalid(settings)
       /\ init_data' =
            [init_data EXCEPT ![p] = SessionInitArgs(settings, env, args[p])]
       /\ LET id == ResolveId(args[p].conversation_id, GenId(uuidCount + 1)) IN
            /\ cid' = [cid EXCEPT ![p] = id]
            /\ uuidCount' =
                 IF args[p].conversation_id = NoId THEN uuidCount + 1
                                                    ELSE uuidCount
            /\ calls' =
                 [calls EXCEPT ![p] =
                    Append(Complete(@, IF settings = NoSettings
                                         THEN "none" ELSE "settings"),
                           Call("exists", id))]
            /\ existedAtCall' = [existedAtCall EXCEPT ![p] = Exists(store, id)]
            /\ issued' =
                 IF args[p].conversation_id = NoId THEN Append(issued, id)
                                                    ELSE issued
  /\ pc' = [pc EXCEPT ![p] = "exists"]
  /\ UNCHANGED <<env, store, started, args, saved, launched, result,
                 saveCount, lateFailed, variantOut>>

\* lines 140-160: the initial message is built and maybe_start_agent_loop
\* is awaited
CallLaunch(p, trace, data) ==
  /\ launched' = [launched EXCEPT ![p] = LaunchArgs(args[p], cid[p], data)]
  /\ calls' = [calls EXCEPT ![p] = Append(trace, Call("launch", cid[p]))]
  /\ pc' = [pc EXCEPT ![p] = "launch"]

\* line 116: conversation_store.exists raises
ExistsRaises(p) ==
  /\ pc[p] = "exists"
  /\ Fail(p, "ExistsError")
  /\ calls' = [calls EXCEPT ![p] = Complete(@, "ExistsError")]
  /\ UNCHANGED <<env, store, uuidCount, started, args, cid, init_data, saved,
                 launched, saveCount, existedAtCall, lateFailed,
                 issued, variantOut>>

\* lines 116, 140-160: the conversation exists; straight to the launch
ExistsReturnsTrue(p) ==
  /\ pc[p] = "exists"
  /\ ~IsNew(Exists(store, cid[p]))
  /\ CallLaunch(p, Complete(calls[p], Answer(Exists(store, cid[p]))),
                init_data[p])
  /\ UNCHANGED <<env, store, uuidCount, started, args, cid, init_data, saved,
                 result, saveCount, existedAtCall, lateFailed,
                 issued, variantOut>>

\* lines 116-123: the conversation is new and the variant test raises
VariantRaises(p) ==
  /\ pc[p] = "exists"
  /\ IsNew(Exists(store, cid[p]))
  /\ Fail(p, "VariantError")
  /\ calls' = [calls EXCEPT ![p] =
                 Append(Complete(@, Answer(Exists(store, cid[p]))),
                        Done("variant", cid[p], "VariantError"))]
  /\ UNCHANGED <<env, store, uuidCount, started, args, cid, init_data, saved,
                 launched, saveCount, existedAtCall, lateFailed,
                 issued, variantOut>>

\* lines 116-138: the conversation is new; the variant test runs and
\* save_metadata is awaited
ExistsReturnsFalse(p) ==
  /\ pc[p] = "exists"
  /\ IsNew(Exists(store, cid[p]))
  /\ \E data \in VariantResults(args[p].user_id, cid[p], init_data[p]) :
       /\ variantOut' = [variantOut EXCEPT ![p] = data]
       /\ init_data' = [init_data EXCEPT ![p] = Adopt(@, data)]
       /\ saved' = [saved EXCEPT ![p] =
                      ConversationMetadata(args[p], cid[p],
                                           Adopt(init_data[p], data))]
  /\ calls' = [calls EXCEPT ![p] =
                 CallVariantThenSave(
                   Complete(@, Answer(Exists(store, cid[p]))), cid[p])]
  /\ saveCount' = [saveCount EXCEPT ![cid[p]] = @ + 1]
  /\ pc' = [pc EXCEPT ![p] = "save"]
  /\ UNCHANGED <<env, store, uuidCount, started, args, cid, launched, result,
                 existedAtCall, lateFailed, issued>>

\* lines 127-138: save_metadata raises; nothing was written
SaveRaises(p) ==
  /\ pc[p] = "save"
  /\ Fail(p, "SaveError")
  /\ calls' = [calls EXCEPT ![p] = Complete(@, "SaveError")]
  /\ UNCHANGED <<env, store, uuidCount, started, args, cid, init_data, saved,
                 launched, saveCount, existedAtCall, lateFailed,
                 issued, variantOut>>

\* lines 127-160: save_metadata wrote the record; on to the launch
SaveReturns(p) ==
  /\ pc[p] = "save"
  /\ store' = SaveMetadata(store, saved[p])
  /\ CallLaunch(p, Complete(calls[p], "ok"), init_data[p])
  /\ UNCHANGED <<env, uuidCount, started, args, cid, init_data, saved, result,
                 saveCount, existedAtCall, lateFailed,
                 issued, variantOut>>

\* the ids a call leaves behind when it fails at the launch: its own, when
\* it saved the metadata
LeftBehind(p) ==
  IF \E i \in 1..Len(calls[p]) : calls[p][i].op = "save" /\ calls[p][i].out = "ok"
    THEN {cid[p]} ELSE {}

\* lines 154-160 with the saved metadata removed when the launch fails
LaunchRaisesRollback(p) ==
  /\ pc[p] = "launch"
  /\ Fail(p, "LaunchError")
  /\ calls' = [calls EXCEPT ![p] = Complete(@, "LaunchError")]
  /\ lateFailed' = lateFailed \cup LeftBehind(p)
  /\ store' = [i \in (DOMAIN store) \ LeftBehind(p) |-> store[i]]
  /\ UNCHANGED <<env, uuidCount, started, args, cid, init_data, saved,
                 launched, saveCount, existedAtCall,
                 issued, variantOut>>
\* lines 154-160: maybe_start_agent_loop raises
LaunchRaises(p) ==
  /\ pc[p] = "launch"
  /\ Fail(p, "LaunchError")
  /\ calls' = [calls EXCEPT ![p] = Complete(@, "LaunchError")]
  /\ lateFailed' = lateFailed \cup LeftBehind(p)
  /\ UNCHANGED <<env, store, uuidCount, started, args, cid, init_data, saved,
                 launched, saveCount, existedAtCall,
                 issued, variantOut>>

\* lines 154-162: maybe_start_agent_loop returns and its value is returned
LaunchReturns(p) ==
  /\ pc[p] = "launch"
  /\ \E info \in AgentLoopInfos(cid[p]) :
       /\ result' = [result EXCEPT ![p] = Returned(info)]
       /\ calls' = [calls EXCEPT ![p] = Complete(@, info.status)]
  /\ pc' = [pc EXCEPT ![p] = "done"]
  /\ UNCHANGED <<env, store, uuidCount, started, args, cid, init_data, saved,
                 launched, saveCount, existedAtCall, lateFailed,
                 issued, variantOut>>

\* the task is cancelled while suspended at an await: CancelledError is
\* raised there; a save_metadata under way has written its record or not
Cancel(p) ==
  /\ pc[p] \in {"load", "exists", "save", "launch"}
  /\ Fail(p, "CancelledError")
  /\ calls' = [calls EXCEPT ![p] = Complete(@, "CancelledError")]
  /\ IF pc[p] = "save"
       THEN store' \in {store, SaveMetadata(store, saved[p])}
       ELSE store' = store
  /\ lateFailed' =
       IF pc[p] = "launch" THEN lateFailed \cup LeftBehind(p) ELSE lateFailed
  /\ UNCHANGED <<env, uuidCount, started, args, cid, init_data, saved,
                 launched, saveCount, existedAtCall,
                 issued, variantOut>>

\* the caller has the outcome; the task is gone
Finish(p) ==
  /\ pc[p] = "done"
  /\ pc' = [pc EXCEPT ![p] = "idle"]
  /\ args' = [args EXCEPT ![p] = NoArgs]
  /\ cid' = [cid EXCEPT ![p] = NoId]
  /\ init_data' = [init_data EXCEPT ![p] = EmptyDict]
  /\ calls' = [calls EXCEPT ![p] = <<>>]
  /\ saved' = [saved EXCEPT ![p] = NoMetadata]
  /\ launched' = [launched EXCEPT ![p] = NoLaunch]
  /\ result' = [result EXCEPT ![p] = NoResult]
  /\ existedAtCall' = [existedAtCall EXCEPT ![p] = FALSE]
  /\ variantOut' = [variantOut EXCEPT ![p] = EmptyDict]
  /\ UNCHANGED <<env, store, uuidCount, started, saveCount, lateFailed,
                 issued>>

\* the steps of an invocation after its start
Step(p) ==
  \/ LoadRaises(p)
  \/ LoadReturnsBadKey(p)
  \/ LoadReturns(p)
  \/ ExistsRaises(p)
  \/ ExistsReturnsTrue(p)
  \/ VariantRaises(p)
  \/ ExistsReturnsFalse(p)
  \/ SaveRaises(p)
  \/ SaveReturns(p)
  \/ LaunchRaises(p)
  \/ LaunchReturns(p)
  \/ Cancel(p)
  \/ Finish(p)

\* invocations interleave at their awaits
Next == \E p \in Procs : Start(p, ConcurrentArgs) \/ Step(p)

Spec == Init /\ [][Next]_vars

\* invocations run one after the other in one task: the first with every
\* combination of arguments, the later ones resuming or beginning anew
NextSeq ==
  \/ started = 0 /\ Start(1, AllArgs)
  \/ started > 0 /\ Start(1, LaterArgs)
  \/ Step(1)

SpecSeq == InitSeq /\ [][NextSeq]_vars

(* ------------------------ properties ----------------------------------- *)
\* the invocation of task p made a call of that kind
HasCall(p, op) == \E i \in 1..Len(calls[p]) : calls[p][i].op = op
\* the invocation of task p made a call of that kind with that outcome
HasOutcome(p, op, out) ==
  \E i \in 1..Len(calls[p]) : calls[p][i].op = op /\ calls[p][i].out = out
\* how many calls of that kind the invocation of task p made
CountCalls(p, op) ==
  Cardinality({i \in 1..Len(calls[p]) : calls[p][i].op = op})

\* C1: an invocation whose exists query answered true makes no variant
\* assignment and no save_metadata call, however many invocations name the id.
C1_IdempotentCreation ==
  \A p \in Procs :
    HasOutcome(p, "exists", "true") =>
      /\ ~HasCall(p, "variant")
      /\ ~HasCall(p, "save")
      /\ saved[p] = NoMetadata

\* a later invocation found the conversation and was launched
C1_Witness ==
  \E p \in Procs :
    /\ HasOutcome(p, "exists", "true")
    /\ pc[p] = "done"
    /\ result[p].status = "ok"
    /\ saveCount[cid[p]] = 1

\* the key of resolved settings is missing, empty or whitespace only
KeyAbsentOrBlank(key) ==
  \/ key.none
  \/ key.val = <<>>
  \/ \A i \in 1..Len(key.val) : key.val[i] \in Whitespace

\* C2: an invocation whose resolved settings have a missing, empty or
\* whitespace-only key fails with LLMAuthenticationError before any id is
\* allocated and before exists, variant, save_metadata or the launch.
C2_CredentialGate ==
  \A p \in Procs :
    (init_data[p] # EmptyDict /\ KeyAbsentOrBlank(init_data[p].llm_api_key)) =>
      /\ result[p] = Raised("LLMAuthenticationError")
      /\ Len(calls[p]) = 1
      /\ cid[p] = NoId

\* C3 as claimed: save_metadata is invoked at most once for a conversation id.
C3_AtMostOneSave == \A id \in AllIds : saveCount[id] <= 1

\* C3 as amended: an invocation calls save_metadata at most once, only after
\* its own exists query answered false, and never when the record of the id
\* was already stored at the time it called exists.
C3_SaveOnlyWhenAbsent ==
  \A p \in Procs :
    /\ CountCalls(p, "save") <= 1
    /\ HasCall(p, "save") =>
         /\ HasOutcome(p, "exists", "false")
         /\ ~existedAtCall[p]

\* an invocation that called exists after the record was saved went on to
\* the launch
C3_Witness ==
  \E p \in Procs :
    /\ existedAtCall[p]
    /\ HasCall(p, "launch")
    /\ saveCount[cid[p]] >= 1

\* the kinds of calls the invocation of task p made, in order
OpsOf(p) == [i \in 1..Len(calls[p]) |-> calls[p][i].op]
CreateOrder == <<"load", "exists", "variant", "save", "launch">>
ResumeOrder == <<"load", "exists", "launch">>

\* C4: a first call without an id and with valid stored settings that
\* returns has seen exists false, saved the metadata once and launched; a
\* later call that supplies the id of a saved conversation sees exists true,
\* makes no variant assignment and no save, and goes to the launch.
C4_CreateThenResume ==
  \A p \in Procs :
    /\ ( /\ pc[p] = "done" /\ result[p].status = "ok"
         /\ args[p].conversation_id = NoId
         /\ HasOutcome(p, "load", "settings") ) =>
           /\ OpsOf(p) = CreateOrder
           /\ HasOutcome(p, "exists", "false")
           /\ saveCount[cid[p]] = 1
           /\ cid[p] \in DOMAIN store /\ store[cid[p]] = saved[p]
           /\ result[p].info.conversation_id = cid[p]
    /\ ( /\ args[p].conversation_id # NoId /\ existedAtCall[p]
         /\ pc[p] \in {"launch", "done"}
         /\ ~HasOutcome(p, "exists", "ExistsError")
         /\ ~HasOutcome(p, "exists", "CancelledError") ) =>
           /\ HasOutcome(p, "exists", "true")
           /\ OpsOf(p) = ResumeOrder
           /\ saved[p] = NoMetadata

\* the conversation generated by the first call was resumed by the second
C4_Witness ==
  \E p \in Procs :
    /\ args[p].conversation_id = GenId(1)
    /\ existedAtCall[p]
    /\ pc[p] = "done" /\ result[p].status = "ok"
    /\ saveCount[GenId(1)] = 1

\* C5: an invocation that returns has called maybe_start_agent_loop exactly
\* once, as its last call, and returns what that call returned; an invocation
\* that failed before the launch has not called it.
C5_SingleHandOff ==
  \A p \in Procs :
    /\ CountCalls(p, "launch") <= 1
    /\ result[p].status = "ok" =>
         /\ CountCalls(p, "launch") = 1
         /\ calls[p][Len(calls[p])].op = "launch"
         /\ result[p].info =
              [conversation_id |-> calls[p][Len(calls[p])].id,
               status |-> calls[p][Len(calls[p])].out]
    /\ (result[p].status = "error" /\ calls[p][Len(calls[p])].op # "launch") =>
         ~HasCall(p, "launch")

\* an invocation returned the info of its launch
C5_Witness ==
  \E p \in Procs :
    /\ pc[p] = "done" /\ result[p].status = "ok"
    /\ result[p].info.status = "RUNNING"

\* the prefixes of a sequence
Prefixes(s) == {SubSeq(s, 1, n) : n \in 0..Len(s)}

\* C6: the calls of one invocation follow the order load, exists, variant,
\* save_metadata, launch (variant and save_metadata left out together), each
\* made after the one before it ended, whatever other invocations do.
C6_StepOrdering ==
  \A p \in Procs :
    /\ OpsOf(p) \in Prefixes(CreateOrder) \cup Prefixes(ResumeOrder)
    /\ \A i \in 1..(Len(calls[p]) - 1) : calls[p][i].out # "pending"

\* two invocations in flight at different steps
C6_Witness ==
  \E p, q \in Procs :
    /\ p # q
    /\ pc[p] = "save"
    /\ pc[q] = "launch" /\ OpsOf(q) = CreateOrder

\* C7: the launcher gets no initial message exactly when the text is None
\* or empty and the image list is None or empty; otherwise one message with
\* the text (or the empty string) and the image list (or the empty list).
C7_MessageConstruction ==
  \A p \in Procs :
    HasCall(p, "launch") =>
      LET t == args[p].initial_user_msg
          g == args[p].image_urls
          m == launched[p].initial_user_msg
          noText == t \in {None, Some(<<>>)}
          noImages == g \in {None, Some(<<>>)}
      IN  /\ (noText /\ noImages) <=> ~m.present
          /\ m.present =>
               /\ m.content = (IF noText THEN <<>> ELSE t.val)
               /\ m.image_urls = (IF noImages THEN <<>> ELSE g.val)

\* a message was built from images alone
C7_Witness ==
  \E p \in Procs :
    /\ HasCall(p, "launch")
    /\ args[p].initial_user_msg = None
    /\ args[p].image_urls = Some(<<"img1">>)
    /\ launched[p].initial_user_msg.present

\* C8: in the settings built for the call every override field has the
\* per-call value, also when the stored settings carry that field, and every
\* other field has its stored or default value.
C8_OverridePriority ==
  \A p \in Procs :
    pc[p] = "exists" =>
      LET d == init_data[p] IN
        /\ \A f \in OverrideFields : f \in DOMAIN d /\ d[f] = args[p][f]
        /\ \E base \in IF HasOutcome(p, "load", "none")
                         THEN {DefaultSettings(env)} ELSE StoredSettings :
             /\ DOMAIN d = (DOMAIN base) \cup OverrideFields
             /\ \A f \in (DOMAIN base) \ OverrideFields : d[f] = base[f]

\* stored settings were merged with a call that left the repository out
C8_Witness ==
  \E p \in Procs :
    /\ pc[p] = "exists"
    /\ HasOutcome(p, "load", "settings")
    /\ args[p].selected_repository = NoValue
    /\ args[p].user_id = "u1"
    /\ init_data[p].selected_repository = NoValue

\* the key the defaults fall back to
FallbackKey(e) ==
  IF ~e.LLM_API_KEY.none /\ e.LLM_API_KEY.val # <<>> THEN e.LLM_API_KEY.val
  ELSE IF ~e.OPENROUTER_API_KEY.none /\ e.OPENROUTER_API_KEY.val # <<>>
         THEN e.OPENROUTER_API_KEY.val
  ELSE MockKey

Failures ==
  {"SettingsStoreError", "ExistsError", "VariantError", "SaveError",
   "LaunchError", "CancelledError"}

\* C9: when load() finds no settings the invocation does not fail with
\* LLMAuthenticationError; it goes on to exists with the defaults and a
\* fallback key and, when no collaborator fails, to the launch.
C9_AnonymousFallback ==
  \A p \in Procs :
    HasOutcome(p, "load", "none") =>
      /\ result[p].error # "LLMAuthenticationError"
      /\ HasCall(p, "exists")
      /\ init_data[p].llm_api_key = Some(FallbackKey(env))
      /\ init_data[p].language = "en"
      /\ init_data[p].max_iterations = 100
      /\ ( /\ pc[p] = "done"
           /\ \A i \in 1..Len(calls[p]) : calls[p][i].out \notin Failures ) =>
             /\ result[p].status = "ok"
             /\ HasCall(p, "launch")

\* an anonymous call with no key in the environment was launched
C9_Witness ==
  \E p \in Procs :
    /\ HasOutcome(p, "load", "none")
    /\ env.LLM_API_KEY.none /\ env.OPENROUTER_API_KEY.none
    /\ init_data[p].llm_api_key = Some(MockKey)
    /\ pc[p] = "done" /\ result[p].status = "ok"

\* C10: a failure of exists or of save_metadata reaches the caller as it is
\* and no launch follows; after a failure of exists there is no variant
\* assignment and no save_metadata either.
C10_StoreFailureAborts ==
  \A p \in Procs :
    /\ HasOutcome(p, "exists", "ExistsError") =>
         /\ result[p] = Raised("ExistsError")
         /\ OpsOf(p) = <<"load", "exists">>
    /\ HasOutcome(p, "save", "SaveError") =>
         /\ result[p] = Raised("SaveError")
         /\ ~HasCall(p, "launch")

\* one invocation failed in exists and another in save_metadata
C10_Witness ==
  \E p, q \in Procs :
    /\ HasOutcome(p, "exists", "ExistsError")
    /\ HasOutcome(q, "save", "SaveError")
    /\ pc[p] = "done" /\ pc[q] = "done"

\* C11: metadata saved by a call that then failed in the launch, or was
\* cancelled while awaiting it, stays in the store; a later call with that id
\* sees exists true, makes no variant assignment and no save, and calls the
\* launcher.
C11_ResumableAfterLateFailure ==
  /\ \A id \in lateFailed : id \in DOMAIN store
  /\ \A p \in Procs :
       /\ (HasOutcome(p, "save", "ok") /\ result[p].status = "error") =>
            /\ cid[p] \in lateFailed
            /\ cid[p] \in DOMAIN store /\ store[cid[p]] = saved[p]
       /\ ( /\ cid[p] \in lateFailed /\ existedAtCall[p]
            /\ pc[p] \in {"launch", "done"}
            /\ ~HasOutcome(p, "exists", "ExistsError")
            /\ ~HasOutcome(p, "exists", "CancelledError") ) =>
              /\ HasOutcome(p, "exists", "true")
              /\ OpsOf(p) = ResumeOrder
              /\ saved[p] = NoMetadata

\* a conversation left behind by a failed launch was resumed by a later call
C11_Witness ==
  \E p \in Procs :
    /\ cid[p] \in lateFailed
    /\ existedAtCall[p]
    /\ pc[p] = "done" /\ result[p].status = "ok"
    /\ saveCount[cid[p]] = 1

\* C12: when the settings-store lookup itself fails the caller gets the
\* configuration error kind (MissingSettingsError), the defaults are not
\* used, and there is no exists query, no metadata write and no launch.
C12_ConfigurationErrorKind ==
  \A p \in Procs :
    HasOutcome(p, "load", "SettingsStoreError") =>
      /\ result[p] = Raised("MissingSettingsError")
      /\ init_data[p] = EmptyDict
      /\ OpsOf(p) = <<"load">>
      /\ saved[p] = NoMetadata

\* C13: whenever maybe_start_agent_loop is invoked the llm_api_key of the
\* settings passed to it is present and not blank.
C13_KeyPresentAtLaunch ==
  \A p \in Procs :
    HasCall(p, "launch") =>
      ~KeyAbsentOrBlank(launched[p].settings.llm_api_key)

\* C14: the calls that supply no conversation id get ids that differ from
\* one another, and each of them queries the store for the id it was given.
C14_GeneratedIdsDistinct ==
  /\ \A i, j \in 1..Len(issued) : i # j => issued[i] # issued[j]
  /\ \A p \in Procs :
       (args[p].conversation_id = NoId /\ cid[p] # NoId) =>
         /\ \E i \in 1..Len(issued) : issued[i] = cid[p]
         /\ calls[p][2].op = "exists" /\ calls[p][2].id = cid[p]

C14_Witness ==
  /\ Len(issued) = 2
  /\ \E p \in Procs :
       /\ args[p].conversation_id = NoId /\ cid[p] = issued[2]
       /\ pc[p] = "done" /\ result[p].status = "ok"

\* the position of the first call of an operation in the trace of a task
IndexOf(p, op) ==
  CHOOSE i \in 1..Len(calls[p]) :
    /\ calls[p][i].op = op
    /\ \A j \in 1..(i - 1) : calls[p][j].op # op

\* C15: for a new conversation the variant test runs exactly once and ends
\* before save_metadata is called; the saved llm_model is the one of the
\* settings the variant test returned and the launch gets those settings;
\* when the variant test fails there is no save and no launch.
C15_VariantBeforePersistence ==
  \A p \in Procs :
    /\ HasCall(p, "save") =>
         /\ CountCalls(p, "variant") = 1
         /\ HasOutcome(p, "variant", "ok")
         /\ IndexOf(p, "variant") < IndexOf(p, "save")
         /\ saved[p].llm_model = variantOut[p].llm_model
         /\ HasCall(p, "launch") => launched[p].settings = variantOut[p]
    /\ (HasOutcome(p, "exists", "false") /\ pc[p] # "exists") =>
         CountCalls(p, "variant") = 1
    /\ HasOutcome(p, "variant", "VariantError") =>
         /\ ~HasCall(p, "save") /\ ~HasCall(p, "launch")
         /\ saved[p] = NoMetadata /\ launched[p] = NoLaunch
         /\ result[p] = Raised("VariantError")

C15_Witness ==
  \E p \in Procs :
    /\ HasOutcome(p, "save", "ok") /\ HasCall(p, "launch")
    /\ variantOut[p].llm_model = <<"variant-model">>
    /\ saved[p].llm_model = <<"variant-model">>
    /\ launched[p].settings.llm_model = <<"variant-model">>

\* C16: one call uses one conversation id: the exists query, the variant
\* test, save_metadata, the saved record and the launch all carry it; a
\* supplied id is used as it is and an id is generated only when none was
\* supplied.
C16_IdConsistency ==
  \A p \in Procs :
    /\ \A i \in 2..Len(calls[p]) : calls[p][i].id = cid[p]
    /\ saved[p] # NoMetadata => saved[p].conversation_id = cid[p]
    /\ launched[p] # NoLaunch => launched[p].conversation_id = cid[p]
    /\ result[p].status = "ok" => result[p].info.conversation_id = cid[p]
    /\ cid[p] # NoId =>
         /\ args[p].conversation_id # NoId => cid[p] = args[p].conversation_id
         /\ args[p].conversation_id = NoId =>
              \E n \in 1..uuidCount : cid[p] = GenId(n) /\ issued[n] = cid[p]
    /\ Len(issued) = uuidCount

C16_Witness ==
  \E p \in Procs :
    /\ args[p].conversation_id \in ExternalIds
    /\ uuidCount = 1
    /\ HasOutcome(p, "save", "ok") /\ pc[p] = "done" /\ result[p].status = "ok"
    /\ saved[p].conversation_id = args[p].conversation_id
    /\ launched[p].conversation_id = args[p].conversation_id

\* the arguments of a call with attach_convo_id the other way round
Flipped(a) == [a EXCEPT !.attach_convo_id = ~@]

\* C17: attach_convo_id has no effect: the id a call uses, the init data it
\* builds, the record it saves and the arguments it launches with are those
\* the same call with the flag the other way round builds from the same
\* answers of its collaborators, and the calls it makes follow from those
\* answers alone.
C17_AttachFlagNoOp ==
  \A p \in Procs :
    /\ cid[p] # NoId =>
         /\ cid[p] = ResolveId(Flipped(args[p]).conversation_id, cid[p])
         /\ \E settings \in StoredSettings \cup {NoSettings} :
              /\ settings = NoSettings <=> HasOutcome(p, "load", "none")
              /\ LET built == SessionInitArgs(settings, env, Flipped(args[p])) IN
                   IF HasOutcome(p, "variant", "ok")
                     THEN init_data[p] \in
                            VariantResults(Flipped(args[p]).user_id, cid[p], built)
                     ELSE init_data[p] = built
    /\ saved[p] # NoMetadata =>
         saved[p] = ConversationMetadata(Flipped(args[p]), cid[p], init_data[p])
    /\ launched[p] # NoLaunch =>
         launched[p] = LaunchArgs(Flipped(args[p]), cid[p], init_data[p])
    /\ HasOutcome(p, "exists", "true") => OpsOf(p) = ResumeOrder
    /\ HasOutcome(p, "exists", "false") =>
         \E n \in 3..Len(CreateOrder) : OpsOf(p) = SubSeq(CreateOrder, 1, n)

C17_Witness ==
  \E p \in Procs :
    /\ args[p].attach_convo_id
    /\ Truthy(args[p].initial_user_msg)
    /\ HasOutcome(p, "save", "ok")
    /\ pc[p] = "done" /\ result[p].status = "ok"
    /\ launched[p].initial_user_msg.present

\* C18: a call for an id the store already holds launches with the settings
\* it resolved itself (stored or default, with its overrides), the variant
\* test not applied, and no step of that call changes the store: the record
\* of the id stays as it was.
C18_ResumeLeavesRecord ==
  /\ [](\A p \in Procs :
          (HasOutcome(p, "exists", "true") /\ launched[p] # NoLaunch) =>
            /\ ~HasCall(p, "variant") /\ ~HasCall(p, "save")
            /\ variantOut[p] = EmptyDict /\ saved[p] = NoMetadata
            /\ launched[p].settings = init_data[p]
            /\ \E settings \in StoredSettings \cup {NoSettings} :
                 /\ settings = NoSettings <=> HasOutcome(p, "load", "none")
                 /\ launched[p].settings =
                      SessionInitArgs(settings, env, args[p])
            /\ cid[p] \in DOMAIN store)
  /\ [][\A p \in Procs :
          (calls'[p] # calls[p] /\ HasOutcome(p, "exists", "true")') =>
            store' = store]_vars

C18_Witness ==
  \E p \in Procs :
    /\ HasOutcome(p, "exists", "true")
    /\ pc[p] = "done" /\ result[p].status = "ok"
    /\ store[cid[p]].llm_model = <<"earlier-model">>
    /\ launched[p].settings.llm_model # <<"earlier-model">>
    /\ args[p].selected_repository = "org/repo"
    /\ launched[p].settings.selected_repository = "org/repo"

====
